---------------------------- MODULE Spec2Model ----------------------------
(***************************************************************************)
(* A model of tools/wheelmaker.py: the wheel builder of rules_python.      *)
(*                                                                         *)
(* Representation.  A Python str that the program inspects character by    *)
(* character (names, versions, archive paths) is a sequence of one-        *)
(* character strings.  A bytes object (file contents, member contents) is  *)
(* a sequence of units, each unit a string of one or more bytes; its       *)
(* length in bytes is ByteLen.  All text of the model is ASCII, so         *)
(* str.encode("utf-8", "surrogateescape") keeps the units as they are.     *)
(* SHA-256 is modelled as an ideal (collision-free) hash: the state of a   *)
(* hash object is the string of all bytes absorbed so far, whatever the    *)
(* blocks they arrived in.  The platform is POSIX: os.path.sep is "/" and  *)
(* os.path.altsep is None.                                                 *)
(***************************************************************************)
EXTENDS Integers, Sequences, FiniteSets, TLC

(***************************************************************************)
(* Bounds of the model.                                                    *)
(***************************************************************************)
\* number of 'package_path;real_path' pairs given with --input_file
MaxInputs == 2
\* bytes returned by one fsrc.read(): stands for 2**20 of add_file
ChunkSize == 2
\* the disk may fill up at any of the first MaxFailAt members
MaxFailAt == 3
\* method calls a client of WheelMaker makes on one object
MaxCalls == 4
\* length of the strings a normalizer is called on by itself
MaxLen == 3

(***************************************************************************)
(* Characters and strings.                                                 *)
(***************************************************************************)
DigitChars == <<"0", "1", "2", "3", "4", "5", "6", "7", "8", "9">>
UpperCase ==
  <<"A", "B", "C", "D", "E", "F", "G", "H", "I", "J", "K", "L", "M", "N",
    "O", "P", "Q", "R", "S", "T", "U", "V", "W", "X", "Y", "Z">>
LowerCase ==
  <<"a", "b", "c", "d", "e", "f", "g", "h", "i", "j", "k", "l", "m", "n",
    "o", "p", "q", "r", "s", "t", "u", "v", "w", "x", "y", "z">>

\* the characters of the model in code-point order
CharOrder ==
  <<"!", "+", "-", ".", "/">> \o DigitChars \o UpperCase \o <<"_">>
    \o LowerCase \o <<"{", "}">>

Ord(c) == CHOOSE i \in 1..Len(CharOrder) : CharOrder[i] = c

\* str.lower() on one character
LowerChar(c) ==
  IF \E i \in 1..Len(UpperCase) : UpperCase[i] = c
  THEN LowerCase[CHOOSE i \in 1..Len(UpperCase) : UpperCase[i] = c]
  ELSE c

lower(s) == [i \in 1..Len(s) |-> LowerChar(s[i])]

startswith(s, p) == Len(p) <= Len(s) /\ SubSeq(s, 1, Len(p)) = p

\* s[n:]
DropFirst(s, n) == SubSeq(s, n + 1, Len(s))

\* Python's < on str: lexicographic by code point
RECURSIVE StrLess(_, _)
StrLess(s, t) ==
  IF t = <<>> THEN FALSE
  ELSE IF s = <<>> THEN TRUE
  ELSE IF s[1] # t[1] THEN Ord(s[1]) < Ord(t[1])
  ELSE StrLess(Tail(s), Tail(t))

\* Python's < on two-element lists or tuples of str
PairLess(p, q) == StrLess(p[1], q[1]) \/ (p[1] = q[1] /\ StrLess(p[2], q[2]))

\* str.lstrip(chars)
RECURSIVE lstrip(_, _)
lstrip(s, chars) ==
  IF s # <<>> /\ s[1] \in chars THEN lstrip(Tail(s), chars) ELSE s

\* str.replace(old, new) for a one-character old
replace(s, old, new) == [i \in 1..Len(s) |-> IF s[i] = old THEN new ELSE s[i]]

\* "".join of the units of a bytes object
RECURSIVE Flatten(_)
Flatten(units) ==
  IF units = <<>> THEN ""
  ELSE IF Len(units) = 1 THEN units[1]
  ELSE LET mid == Len(units) \div 2
       IN Flatten(SubSeq(units, 1, mid))
            \o Flatten(SubSeq(units, mid + 1, Len(units)))

\* len() of a bytes object
RECURSIVE ByteLen(_)
ByteLen(units) ==
  IF units = <<>> THEN 0
  ELSE IF Len(units) = 1 THEN Len(units[1])
  ELSE LET mid == Len(units) \div 2
       IN ByteLen(SubSeq(units, 1, mid))
            + ByteLen(SubSeq(units, mid + 1, Len(units)))

os_path_sep == "/"


(***************************************************************************)
(* Regular-expression helpers.                                             *)
(***************************************************************************)
Chars == {CharOrder[i] : i \in 1..Len(CharOrder)}
Digits == {DigitChars[i] : i \in 1..Len(DigitChars)}
Letters == {UpperCase[i] : i \in 1..Len(UpperCase)}
             \cup {LowerCase[i] : i \in 1..Len(LowerCase)}
\* \w of a str pattern, on the characters of the model
WordChars == Letters \cup Digits \cup {"_"}

\* re.sub(r"[class]+", repl, s, count): every maximal run of characters of
\* class becomes repl, for the first count runs (count = 0: all of them)
RECURSIVE SubRuns(_, _, _, _, _)
SubRuns(s, class, repl, count, done) ==
  IF s = <<>> THEN <<>>
  ELSE IF s[1] \in class /\ (count = 0 \/ done < count)
       THEN repl \o SubRuns(lstrip(s, class), class, repl, count, done + 1)
       ELSE <<s[1]>> \o SubRuns(Tail(s), class, repl, count, done)

\* str.strip(chars)
RECURSIVE rstrip(_, _)
rstrip(s, chars) ==
  IF s # <<>> /\ s[Len(s)] \in chars
  THEN rstrip(SubSeq(s, 1, Len(s) - 1), chars) ELSE s

strip(s, chars) == rstrip(lstrip(s, chars), chars)

\* the longest prefix of s made of characters of class
RECURSIVE SpanOf(_, _)
SpanOf(s, class) ==
  IF s # <<>> /\ s[1] \in class
  THEN <<s[1]>> \o SpanOf(Tail(s), class) ELSE <<>>

re_UNICODE == 32

escape_filename_segment(segment) ==
  \* re.UNICODE is passed in the position of count
  SubRuns(segment, Chars \ (WordChars \cup {"."}), <<"_">>, re_UNICODE, 0)

\* normalize_package_name replacing the first run of separators only
normalize_package_name_first_run_only(name) ==
  lower(SubRuns(name, {"-", "_", "."}, <<"-">>, 1, 0))

normalize_package_name(name) ==
  lower(SubRuns(name, {"-", "_", "."}, <<"-">>, 0, 0))

\* escape_filename_distribution_name leaving the "-" of the normalized name
escape_filename_distribution_name_keeps_hyphen(name) ==
  normalize_package_name(name)

escape_filename_distribution_name(name) ==
  replace(normalize_package_name(name), "-", "_")

(***************************************************************************)
(* packaging.version.Version: the PEP 440 pattern, matched ignoring case   *)
(* against the whole string, and str() of the parsed version.  In order    *)
(* the pattern has: an optional "v"; an optional epoch N "!"; the release  *)
(* N ("." N)...; an optional pre-release, post-release and dev-release     *)
(* group, each an optional separator, a keyword, an optional separator     *)
(* and an optional number (a post-release may also be "-" N); an optional  *)
(* local version "+" followed by alphanumeric parts joined by separators.  *)
(* Optional items are greedy and alternatives are tried in the order of    *)
(* the pattern, backtracking when the rest of the string does not match.   *)
(* A result is a record; ok = FALSE is InvalidVersion.                     *)
(***************************************************************************)
Seps == {"-", "_", "."}
PreWords ==
  << <<"a","l","p","h","a">>, <<"a">>, <<"b","e","t","a">>, <<"b">>,
     <<"p","r","e","v","i","e","w">>, <<"p","r","e">>, <<"c">>, <<"r","c">> >>
PostWords == << <<"p","o","s","t">>, <<"r","e","v">>, <<"r">> >>
DevWords == << <<"d","e","v">> >>

\* the keywords of the pre (1), post (2) and dev (3) group
GroupWords(stage) ==
  CASE stage = 1 -> PreWords [] stage = 2 -> PostWords [] OTHER -> DevWords

\* str(int(digits)): leading zeros dropped
IntStr(digits) ==
  LET t == lstrip(digits, {"0"}) IN IF t = <<>> THEN <<"0">> ELSE t

NumStr(digits) == IF digits = <<>> THEN <<"0">> ELSE IntStr(digits)

\* N ("." N)... at the head of s, as str(): [text, rest]
RECURSIVE Release(_)
Release(s) ==
  LET n == SpanOf(s, Digits)
      r == DropFirst(s, Len(n))
  IN IF n = <<>> THEN [text |-> <<>>, rest |-> s]
     ELSE IF Len(r) >= 2 /\ r[1] = "." /\ r[2] \in Digits
          THEN LET more == Release(Tail(r))
               IN [text |-> IntStr(n) \o <<".">> \o more.text,
                   rest |-> more.rest]
          ELSE [text |-> IntStr(n), rest |-> r]

\* the local version: alphanumeric parts joined by separators, matching
\* the whole of s, as str(); <<>> when s does not match
RECURSIVE Local(_)
Local(s) ==
  LET part == SpanOf(s, Letters \cup Digits)
      r    == DropFirst(s, Len(part))
      text == IF part = SpanOf(part, Digits) THEN IntStr(part) ELSE part
  IN IF part = <<>> THEN <<>>
     ELSE IF r = <<>> THEN text
     ELSE IF r[1] \in Seps /\ Local(Tail(r)) # <<>>
          THEN text \o <<".">> \o Local(Tail(r))
          ELSE <<>>

PreLetter(w) ==
  CASE w \in {<<"a">>, <<"a","l","p","h","a">>} -> <<"a">>
    [] w \in {<<"b">>, <<"b","e","t","a">>} -> <<"b">>
    [] OTHER -> <<"r","c">>

\* str() of a matched group
GroupText(stage, word, n) ==
  CASE stage = 1 -> PreLetter(word) \o NumStr(n)
    [] stage = 2 -> <<".", "p", "o", "s", "t">> \o NumStr(n)
    [] OTHER -> <<".", "d", "e", "v">> \o NumStr(n)

Invalid == [ok |-> FALSE, text |-> <<>>]

\* one way to match a keyword group at the head of s: separator taken or
\* not (t1), the i-th keyword, separator taken or not (t2), then digits
GroupOption(s, words, t1, i, t2) ==
  LET s1 == IF t1 /\ s # <<>> THEN Tail(s) ELSE s
      s2 == DropFirst(s1, Len(words[i]))
      s3 == IF t2 /\ s2 # <<>> THEN Tail(s2) ELSE s2
      n  == SpanOf(s3, Digits)
  IN [valid |-> /\ (t1 => s # <<>> /\ s[1] \in Seps)
                /\ startswith(s1, words[i])
                /\ (t2 => s2 # <<>> /\ s2[1] \in Seps),
      rank  |-> (IF t1 THEN 0 ELSE 4 * Len(words)) + 2 * i
                  + (IF t2 THEN 0 ELSE 1),
      word  |-> words[i], n |-> n, rest |-> DropFirst(s3, Len(n))]

\* the pattern from the group of this stage to the end of the string
RECURSIVE MatchFrom(_, _)
MatchFrom(stage, s) ==
  IF stage = 4
  THEN IF s = <<>> THEN [ok |-> TRUE, text |-> <<>>]
       ELSE IF s[1] = "+" /\ Local(Tail(s)) # <<>>
            THEN [ok |-> TRUE, text |-> <<"+">> \o Local(Tail(s))]
            ELSE Invalid
  ELSE
    LET words == GroupWords(stage)
        n1    == IF stage = 2 /\ s # <<>> /\ s[1] = "-"
                 THEN SpanOf(Tail(s), Digits) ELSE <<>>
        after1 == MatchFrom(3, DropFirst(s, Len(n1) + 1))
        opts  == {o \in {GroupOption(s, words, t1, i, t2) :
                           t1 \in BOOLEAN, i \in 1..Len(words),
                           t2 \in BOOLEAN} :
                    o.valid /\ MatchFrom(stage + 1, o.rest).ok}
        best  == CHOOSE o \in opts : \A p \in opts : o.rank <= p.rank
    IN IF n1 # <<>> /\ after1.ok
       THEN [ok |-> TRUE,
             text |-> GroupText(2, <<>>, n1) \o after1.text]
       ELSE IF opts # {}
       THEN [ok |-> TRUE,
             text |-> GroupText(stage, best.word, best.n)
                        \o MatchFrom(stage + 1, best.rest).text]
       ELSE MatchFrom(stage + 1, s)

Version(version) ==
  LET s0   == lower(version)
      s1   == IF s0 # <<>> /\ s0[1] = "v" THEN Tail(s0) ELSE s0
      e    == SpanOf(s1, Digits)
      hasE == e # <<>> /\ Len(s1) > Len(e) /\ s1[Len(e) + 1] = "!"
      s2   == IF hasE THEN DropFirst(s1, Len(e) + 1) ELSE s1
      epoch == IF hasE /\ IntStr(e) # <<"0">> THEN IntStr(e) \o <<"!">>
               ELSE <<>>
      rel  == Release(s2)
      tail == MatchFrom(1, rel.rest)
  IN IF rel.text # <<>> /\ tail.ok
     THEN [ok |-> TRUE, text |-> epoch \o rel.text \o tail.text]
     ELSE Invalid

\* re.sub(r"\{\w+\}", "0", version)
RECURSIVE SubPlaceholders(_)
SubPlaceholders(s) ==
  IF s = <<>> THEN <<>>
  ELSE LET w == SpanOf(Tail(s), WordChars)
       IN IF s[1] = "{" /\ w # <<>> /\ Len(s) > Len(w) + 1
               /\ s[Len(w) + 2] = "}"
          THEN <<"0">> \o SubPlaceholders(DropFirst(s, Len(w) + 2))
          ELSE <<s[1]>> \o SubPlaceholders(Tail(s))

\* the attempts of normalize_pep440 with "+" as the delimiter whatever the
\* substituted string contains
Pep440Attempts_delimiter_always_plus(version) ==
  LET sanitized   == strip(SubRuns(lower(version),
                                   Chars \ (Letters \cup Digits),
                                   <<".">>, 0, 0), {"."})
      substituted == SubPlaceholders(version)
  IN << version,
        substituted \o <<"+">> \o sanitized,
        <<"0", "+">> \o sanitized >>

\* the attempts of normalize_pep440 without the first one: the version is
\* never taken as it is
Pep440Attempts_without_first_try(version) ==
  LET sanitized   == strip(SubRuns(lower(version),
                                   Chars \ (Letters \cup Digits),
                                   <<".">>, 0, 0), {"."})
      substituted == SubPlaceholders(version)
      delimiter   == IF "+" \in {substituted[i] : i \in 1..Len(substituted)}
                     THEN <<".">> ELSE <<"+">>
  IN << <<>>,
        substituted \o delimiter \o sanitized,
        <<"0", "+">> \o sanitized >>

\* the three attempts of normalize_pep440, in the order it makes them
Pep440Attempts(version) ==
  LET sanitized   == strip(SubRuns(lower(version),
                                   Chars \ (Letters \cup Digits),
                                   <<".">>, 0, 0), {"."})
      substituted == SubPlaceholders(version)
      delimiter   == IF "+" \in {substituted[i] : i \in 1..Len(substituted)}
                     THEN <<".">> ELSE <<"+">>
  IN << version,
        substituted \o delimiter \o sanitized,
        <<"0", "+">> \o sanitized >>

\* normalize_pep440 raises InvalidVersion: the last attempt is not caught
normalize_pep440_raises(version) ==
  \A i \in 1..3 : ~Version(Pep440Attempts(version)[i]).ok

normalize_pep440(version) ==
  LET tries == Pep440Attempts(version)
  IN IF Version(tries[1]).ok THEN Version(tries[1]).text
     ELSE IF Version(tries[2]).ok THEN Version(tries[2]).text
     ELSE Version(tries[3]).text

(***************************************************************************)
(* The files the build reads.  A path is a file with its bytes or a        *)
(* directory with the names of its children; a path that is not in the     *)
(* domain does not exist, so open() on it raises.                          *)
(***************************************************************************)
None == <<>>

File(data) == [kind |-> "file", data |-> data, names |-> {}]
Dir(names) == [kind |-> "dir", data |-> <<>>, names |-> names]

FS ==
  ( <<"f", "0">> :> File(<<>>) ) @@
  ( <<"f", "1">> :> File(<<"a", "b", "c">>) ) @@
  ( <<"f", "2">> :> File(<<"b", "a">>) ) @@
  ( <<"d">> :> Dir({<<"a">>, <<"s">>}) ) @@
  ( <<"d", "/", "a">> :> File(<<"a">>) ) @@
  ( <<"d", "/", "s">> :> Dir({<<"b">>, <<"c">>}) ) @@
  ( <<"d", "/", "s", "/", "b">> :> File(<<"b", "a", "b">>) ) @@
  ( <<"d", "/", "s", "/", "c">> :> File(<<>>) ) @@
  ( <<"o">> :> Dir({}) ) @@
  ( <<"p">> :> File(<<"[", "c", "]", "\n">>) ) @@
  ( <<"t">> :> File(<<"Name: ", "x", "\n", "Summary: ", "s", "\n">>) ) @@
  ( <<"t", "2">> :> File(<<"Summary: ", "s", "\n", "Name: ", "x", "\n",
                           "Name: ", "y", "\n">>) ) @@
  ( <<"i">> :> File(<<"long", "\n", "text">>) )

os_path_isdir(path) == path \in DOMAIN FS /\ FS[path].kind = "dir"

\* open(path) succeeds
Readable(path) == path \in DOMAIN FS /\ FS[path].kind = "file"

\* the orders in which os.listdir may return the children of a directory
Listings(names) ==
  {l \in [1..Cardinality(names) -> names] :
     \A i, j \in 1..Cardinality(names) : l[i] = l[j] => i = j}

\* "{}/{}".format(a, b)
JoinSlash(a, b) == a \o <<"/">> \o b

(***************************************************************************)
(* _WhlFile.  The state of the object and of the zip file it writes is a   *)
(* record w: _distinfo_dir, _strip_path_prefixes and _record are the       *)
(* fields of the object, archive is the sequence of members written so     *)
(* far, and ok = FALSE says that the call raised.  The member whose        *)
(* number is fail_at cannot be written (the disk is full); 0 is never.     *)
(***************************************************************************)
_ZIP_EPOCH == <<1980, 1, 1, 0, 0, 0>>

\* Path(distinfo_dir).name: the last component, trailing slashes ignored
RECURSIVE LastComponent(_)
LastComponent(path) ==
  IF path = <<>> \/ path[Len(path)] = "/" THEN <<>>
  ELSE LastComponent(SubSeq(path, 1, Len(path) - 1)) \o <<path[Len(path)]>>

PathName(path) == LastComponent(rstrip(path, {"/"}))

\* _WhlFile.__init__
_WhlFile(distinfo_dir, strip_path_prefixes) ==
  [_distinfo_dir |-> PathName(distinfo_dir),
   _strip_path_prefixes |-> strip_path_prefixes,
   _record |-> <<>>,
   archive |-> <<>>,
   ok |-> TRUE]

distinfo_path(w, basename) == w._distinfo_dir \o <<"/">> \o basename

arcname_from(w, name) ==
  LET distinfo == w._distinfo_dir
      prefixes == w._strip_path_prefixes
      normalized_arcname == replace(name, os_path_sep, "/")
      hits == {i \in 1..Len(prefixes) :
                 startswith(normalized_arcname, prefixes[i])}
      first == CHOOSE i \in hits : \A j \in hits : i <= j
  IN IF startswith(normalized_arcname, distinfo) THEN normalized_arcname
     ELSE IF hits # {}
          THEN DropFirst(normalized_arcname, Len(prefixes[first]))
          ELSE normalized_arcname

_zipinfo(filename) ==
  [filename |-> lstrip(filename, {os_path_sep}),
   date_time |-> _ZIP_EPOCH,
   create_system |-> 3,
   external_attr |-> 511 * 65536]

\* hashlib.sha256() and hash.update(block)
sha256_new == ""
sha256_update(hash, block) == hash \o Flatten(block)

_serialize_digest(hash) == "sha256=" \o hash

\* _add_to_record putting the new entry in front
_add_to_record_in_front(record, filename, hash, size) ==
  << <<filename, hash, ToString(size)>> >> \o record

_add_to_record(record, filename, hash, size) ==
  Append(record, <<filename, hash, ToString(size)>>)

\* the member of the archive written under zinfo with these bytes
Member(zinfo, data) == [zinfo |-> zinfo, data |-> data]

\* the copy loop of add_file from offset pos of the source: what was
\* written to the member, the hash object and the byte count at the end
\* the copy loop leaving the loop after writing a short block, before the
\* block is hashed and counted
RECURSIVE CopyLoop_short_block_unhashed(_, _, _, _, _)
CopyLoop_short_block_unhashed(src, pos, written, hash, size) ==
  LET last  == IF pos + ChunkSize < Len(src) THEN pos + ChunkSize
               ELSE Len(src)
      block == SubSeq(src, pos + 1, last)
  IN IF block = <<>> THEN [written |-> written, hash |-> hash, size |-> size]
     ELSE IF Len(block) < ChunkSize
          THEN [written |-> written \o block, hash |-> hash, size |-> size]
          ELSE CopyLoop_short_block_unhashed(src, last, written \o block,
                 sha256_update(hash, block), size + ByteLen(block))

RECURSIVE CopyLoop(_, _, _, _, _)
CopyLoop(src, pos, written, hash, size) ==
  LET last  == IF pos + ChunkSize < Len(src) THEN pos + ChunkSize
               ELSE Len(src)
      block == SubSeq(src, pos + 1, last)
  IN IF block = <<>> THEN [written |-> written, hash |-> hash, size |-> size]
     ELSE CopyLoop(src, last, written \o block, sha256_update(hash, block),
                   size + ByteLen(block))

Raised(w) == [w EXCEPT !.ok = FALSE]

\* _WhlFile.add_file: the set of states it may end in
RECURSIVE add_file(_, _, _, _)
RECURSIVE add_children(_, _, _, _, _)
add_file(w, fail_at, package_filename, real_filename) ==
  IF os_path_isdir(real_filename)
  THEN UNION {add_children(w, fail_at, package_filename,
                           real_filename, directory_contents) :
                directory_contents \in Listings(FS[real_filename].names)}
  ELSE
    LET arcname == arcname_from(w, package_filename)
        zinfo   == _zipinfo(arcname)
        copy    == CopyLoop(FS[real_filename].data, 0, <<>>, sha256_new, 0)
    IN IF ~Readable(real_filename) \/ Len(w.archive) + 1 = fail_at
       THEN {Raised(w)}
       ELSE {[w EXCEPT
                !.archive = Append(@, Member(zinfo, copy.written)),
                !._record = _add_to_record(@, arcname,
                             _serialize_digest(copy.hash), copy.size)]}

\* add_children passing over the children that are directories
add_children_without_nested_directories(w, fail_at, package_filename, real_filename, contents) ==
  IF contents = <<>> \/ ~w.ok THEN {w}
  ELSE IF os_path_isdir(JoinSlash(real_filename, Head(contents)))
       THEN add_children(w, fail_at, package_filename, real_filename,
                         Tail(contents))
       ELSE UNION {add_children(w2, fail_at, package_filename,
                                real_filename, Tail(contents)) :
                     w2 \in add_file(w, fail_at,
                                     JoinSlash(package_filename,
                                               Head(contents)),
                                     JoinSlash(real_filename,
                                               Head(contents)))}

add_children(w, fail_at, package_filename, real_filename, contents) ==
  IF contents = <<>> \/ ~w.ok THEN {w}
  ELSE UNION {add_children(w2, fail_at, package_filename,
                           real_filename, Tail(contents)) :
                w2 \in add_file(w, fail_at,
                                JoinSlash(package_filename,
                                          Head(contents)),
                                JoinSlash(real_filename,
                                          Head(contents)))}

add_string(w, fail_at, filename, contents) ==
  IF Len(w.archive) + 1 = fail_at THEN Raised(w)
  ELSE [w EXCEPT
          !.archive = Append(@, Member(_zipinfo(filename), contents)),
          !._record = _add_to_record(@, filename,
                       _serialize_digest(sha256_update(sha256_new, contents)),
                       ByteLen(contents))]

\* b"%s,%s,%s\n" % (filename, digest, size) for one entry of _record
\* the line of RECORD with the path as _add_to_record was given it
RecordLine_path_as_recorded(entry) ==
  entry[1] \o <<",", entry[2], ",", entry[3], "\n">>

RecordLine(entry) ==
  lstrip(entry[1], {"/"}) \o <<",", entry[2], ",", entry[3], "\n">>

RECURSIVE RecordContents(_)
RecordContents(entries) ==
  IF entries = <<>> THEN <<>>
  ELSE RecordLine(Head(entries)) \o RecordContents(Tail(entries))

RECORD == <<"R", "E", "C", "O", "R", "D">>

\* add_recordfile with the line of RECORD itself put first
add_recordfile_own_line_first(w, fail_at) ==
  LET record_path == distinfo_path(w, RECORD)
      entries     == << <<record_path, "", "">> >> \o w._record
  IN add_string(w, fail_at, record_path, RecordContents(entries))

add_recordfile(w, fail_at) ==
  LET record_path == distinfo_path(w, RECORD)
      entries     == w._record \o << <<record_path, "", "">> >>
  IN add_string(w, fail_at, record_path, RecordContents(entries))

(***************************************************************************)
(* WheelMaker.                                                             *)
(***************************************************************************)
\* sep.join(parts)
RECURSIVE Join(_, _)
Join(parts, sep) ==
  IF parts = <<>> THEN <<>>
  ELSE IF Len(parts) = 1 THEN parts[1]
  ELSE parts[1] \o sep \o Join(Tail(parts), sep)

DistInfoSuffix == <<".", "d", "i", "s", "t", "-", "i", "n", "f", "o", "/">>
WhlSuffix == <<".", "w", "h", "l">>
any == <<"a", "n", "y">>

\* WheelMaker.__init__
WheelMaker(name, version, build_tag, python_tag, abi, platform, outfile, strip_path_prefixes, normalize_name, normalize_version) ==
  LET _version == IF normalize_version
                  THEN normalize_pep440(version) ELSE version
      _escaped_version == IF normalize_version THEN _version
                          ELSE escape_filename_segment(_version)
      escaped_name == escape_filename_distribution_name(name)
  IN [_name |-> name,
      _version |-> _version,
      _build_tag |-> build_tag,
      _python_tag |-> python_tag,
      _abi |-> abi,
      _platform |-> platform,
      _outfile |-> outfile,
      _strip_path_prefixes |-> strip_path_prefixes,
      _escaped_version |-> _escaped_version,
      _distinfo_dir |->
        IF normalize_name
        THEN escaped_name \o <<"-">> \o _escaped_version \o DistInfoSuffix
        ELSE escape_filename_segment(name) \o <<"-">> \o _escaped_version
               \o DistInfoSuffix,
      _wheelname_fragment_distribution_name |->
        IF normalize_name THEN escaped_name ELSE name]

wheelname(m) ==
  Join(<<m._wheelname_fragment_distribution_name, m._version>>
         \o (IF m._build_tag # None THEN <<m._build_tag>> ELSE <<>>)
         \o <<m._python_tag, m._abi, m._platform>>,
       <<"-">>) \o WhlSuffix

filename(m) == IF m._outfile # None THEN m._outfile ELSE wheelname(m)

disttags(m) == << Join(<<m._python_tag, m._abi, m._platform>>, <<"-">>) >>

RECURSIVE TagLines(_)
TagLines(tags) ==
  IF tags = <<>> THEN <<>>
  ELSE <<"Tag: ">> \o Head(tags) \o <<"\n">> \o TagLines(Tail(tags))

WHEEL == <<"W", "H", "E", "E", "L">>
METADATA == <<"M", "E", "T", "A", "D", "A", "T", "A">>
entry_points_txt ==
  <<"e", "n", "t", "r", "y", "_", "p", "o", "i", "n", "t", "s", ".", "t",
    "x", "t">>

\* the text add_wheelfile writes
wheel_contents(m) ==
  <<"Wheel-Version: 1.0", "\n", "Generator: bazel-wheelmaker 1.0", "\n",
    "Root-Is-Purelib: ", IF m._platform = any THEN "true" ELSE "false",
    "\n">> \o TagLines(disttags(m))

add_wheelfile(m, w, fail_at) ==
  add_string(w, fail_at, distinfo_path(w, WHEEL), wheel_contents(m))

\* the units of text up to the end of the line
RECURSIVE RestOfLine(_)
RestOfLine(text) ==
  IF text = <<>> \/ Head(text) = "\n" THEN <<>>
  ELSE <<Head(text)>> \o RestOfLine(Tail(text))

\* re.sub("^Name: .*$", "Name: %s" % name, metadata, flags=re.MULTILINE).
\* A text is tokenised so that a newline and a "Name: " at the start of a
\* line are units of their own.
RECURSIVE SubNameLines(_, _, _)
SubNameLines(text, at_line_start, name) ==
  IF text = <<>> THEN <<>>
  ELSE IF at_line_start /\ Head(text) = "Name: "
       THEN <<"Name: ">> \o name
              \o SubNameLines(DropFirst(text, Len(RestOfLine(text))),
                              FALSE, name)
       ELSE <<Head(text)>>
              \o SubNameLines(Tail(text), Head(text) = "\n", name)

\* the text add_metadata writes
metadata_contents(metadata, name, description, version) ==
  SubNameLines(metadata, TRUE, name)
    \o <<"Version: ">> \o version \o <<"\n", "\n">>
    \o (IF description # None THEN description ELSE <<"UNKNOWN">>)
    \o <<"\n">>

add_metadata(w, fail_at, metadata, name, description, version) ==
  add_string(w, fail_at, distinfo_path(w, METADATA),
             metadata_contents(metadata, name, description, version))

(***************************************************************************)
(* main.                                                                   *)
(***************************************************************************)
\* the dict of get_files_to_package: for every package path the real path
\* of the last pair that names it
\* get_files_to_package keeping the first pair that names a package path
RECURSIVE get_files_to_package_first_wins(_)
get_files_to_package_first_wins(input_files) ==
  IF input_files = <<>> THEN <<>>
  ELSE LET n     == Len(input_files)
           files == get_files_to_package_first_wins(
                      SubSeq(input_files, 1, n - 1))
       IN files @@ (input_files[n][1] :> input_files[n][2])

RECURSIVE get_files_to_package(_)
get_files_to_package(input_files) ==
  IF input_files = <<>> THEN <<>>
  ELSE LET n     == Len(input_files)
           files == get_files_to_package(SubSeq(input_files, 1, n - 1))
       IN (input_files[n][1] :> input_files[n][2]) @@ files

\* sorted(d.items())
sorted_items(d) ==
  LET keys == DOMAIN d
      some == CHOOSE f \in [1..Cardinality(keys) -> keys] :
                \A i, j \in 1..Cardinality(keys) : f[i] = f[j] => i = j
  IN SortSeq([i \in 1..Cardinality(keys) |-> <<some[i], d[some[i]]>>],
             PairLess)

\* sorted(list of pairs)
sorted(pairs) == SortSeq(pairs, PairLess)

(***************************************************************************)
(* The command lines of the model.  Stamping is outside the builder: no    *)
(* status files are given, so name and version are the arguments.          *)
(***************************************************************************)
py3 == <<"p", "y", "3">>
none == <<"n", "o", "n", "e">>

Names == { <<"p", ".", "B">>, <<"p", "_", "_", "b">> }
Versions == { <<"1", ".", "0">>, <<"1", "-", "b">>, <<"{", "B", "}">>,
              <<"-">> }
Platforms == { any, <<"o", "s">> }

\* the descriptor directory of the default name and version
DefaultDistinfo == <<"p", "_", "b", "-", "1", ".", "0">>
                     \o <<".", "d", "i", "s", "t", "-", "i", "n", "f", "o">>

\* 'package_path;real_path' pairs
InputPairs ==
  { << <<"a", "/", "b", "/", "c">>, <<"f", "1">> >>,
    << <<"a", "/", "c">>, <<"f", "2">> >>,
    << <<"a", "/", "b", "/", "c">>, <<"f", "0">> >>,
    << <<"a", "/", "d">>, <<"d">> >>,
    << DefaultDistinfo \o <<"/", "c">>, <<"f", "2">> >>,
    << DefaultDistinfo \o <<"b", "/", "c">>, <<"f", "1">> >>,
    << <<"a", "/", "n">>, <<"n">> >>,
    << <<"o">>, <<"o">> >> }

StripPrefixLists ==
  { <<>>,
    << <<"a", "/", "b">>, <<"a">> >>,
    << <<"a">>, <<"a", "/", "b">> >>,
    << <<"p">>, <<"a", "/">> >> }

ExtraLists ==
  { <<>>,
    << << <<"b">>, <<"f", "2">> >>, << <<"a">>, <<"f", "1">> >> >>,
    << << <<"a">>, <<"n">> >> >> }

SeqsUpTo(S, n) == UNION {[1..k -> S] : k \in 0..n}

DefaultArgs ==
  [name |-> <<"p", ".", "B">>,
   version |-> <<"1", ".", "0">>,
   build_tag |-> None,
   python_tag |-> py3,
   abi |-> none,
   platform |-> any,
   out |-> None,
   strip_path_prefix |-> <<>>,
   metadata_file |-> <<"t">>,
   description_file |-> None,
   entry_points_file |-> None,
   input_file |-> << << <<"a", "/", "c">>, <<"f", "2">> >> >>,
   extra_distinfo_file |-> <<>>,
   noincompatible_normalize_name |-> FALSE,
   noincompatible_normalize_version |-> FALSE]

\* the contents of the wheel vary
ContentArgs ==
  {[DefaultArgs EXCEPT !.input_file = f, !.strip_path_prefix = p] :
     f \in SeqsUpTo(InputPairs, MaxInputs), p \in StripPrefixLists}

\* the identity of the distribution varies
IdentityArgs ==
  {[DefaultArgs EXCEPT !.name = n, !.version = v, !.platform = pl,
                       !.build_tag = b,
                       !.noincompatible_normalize_name = nn,
                       !.noincompatible_normalize_version = nv] :
     n \in Names, v \in Versions, pl \in Platforms,
     b \in {None, <<"1">>}, nn \in BOOLEAN, nv \in BOOLEAN}

\* the descriptor files vary
DescriptorArgs ==
  {[DefaultArgs EXCEPT !.metadata_file = m, !.description_file = d,
                       !.entry_points_file = e, !.extra_distinfo_file = x,
                       !.out = o] :
     m \in {<<"t">>, <<"t", "2">>, <<"n">>}, d \in {None, <<"i">>, <<"n">>},
     e \in {None, <<"p">>, <<"n">>}, x \in ExtraLists,
     o \in {None, <<"o", ".", "w", "h", "l">>}}

\* package paths that begin with separators once a prefix is removed
SeparatorArgs ==
  {[DefaultArgs EXCEPT !.input_file = f, !.strip_path_prefix = p] :
     f \in { << << <<"a", "/", "/", "c">>, <<"f", "2">> >> >>,
             << << <<"a", "/", "/", "c">>, <<"f", "2">> >>,
                << <<"a", "/", "c">>, <<"f", "1">> >> >> },
     p \in { << <<"a">> >>, << <<"a", "/">> >> }}

\* the end-to-end scenario: name My.Pkg, version 1.0-beta, two content
\* files, platform any
ScenarioArgs ==
  {[DefaultArgs EXCEPT
      !.name = <<"M", "y", ".", "P", "k", "g">>,
      !.version = <<"1", ".", "0", "-", "b", "e", "t", "a">>,
      !.input_file = << << <<"a", "/", "b", "/", "c">>, <<"f", "1">> >>,
                        << <<"a", "/", "c">>, <<"f", "2">> >> >>]}

\* the version passed to add_metadata as it was given
version_in_metadata_as_given(args) == args.version

\* lines 550-553
version_in_metadata(args) ==
  IF args.noincompatible_normalize_version THEN args.version
  ELSE normalize_pep440(args.version)

\* maker.add_file for every pair of a list, in order: the states it may
\* end in.  The extra descriptor files go under the descriptor directory.
RECURSIVE add_all(_, _, _)
add_all(ws, pairs, in_distinfo) ==
  IF pairs = <<>> THEN ws
  ELSE add_all(UNION {IF w.ok
                      THEN add_file(w, 0,
                             IF in_distinfo
                             THEN distinfo_path(w, Head(pairs)[1])
                             ELSE Head(pairs)[1],
                             Head(pairs)[2])
                      ELSE {w} : w \in ws},
               Tail(pairs), in_distinfo)

\* lines 491-570 as a whole: the states of the archive in which a run of
\* main on this command line may add RECORD, on a disk that takes all
\* writes
Builds(args) ==
  LET m  == WheelMaker(args.name, args.version, args.build_tag,
                       args.python_tag, args.abi, args.platform, args.out,
                       args.strip_path_prefix,
                       ~args.noincompatible_normalize_name,
                       ~args.noincompatible_normalize_version)
      w0 == _WhlFile(m._distinfo_dir, m._strip_path_prefixes)
      s1 == add_all({w0}, sorted_items(get_files_to_package(args.input_file)),
                    FALSE)
      s2 == {add_wheelfile(m, w, 0) : w \in {v \in s1 : v.ok}}
      s3 == IF \/ (args.description_file # None
                     /\ ~Readable(args.description_file))
               \/ ~Readable(args.metadata_file)
            THEN {}
            ELSE {add_metadata(w, 0, FS[args.metadata_file].data, args.name,
                               IF args.description_file # None
                               THEN FS[args.description_file].data ELSE None,
                               version_in_metadata(args)) : w \in s2}
      s4 == IF args.entry_points_file # None
            THEN UNION {add_file(w, 0, distinfo_path(w, entry_points_txt),
                                 args.entry_points_file) : w \in s3}
            ELSE s3
      s5 == add_all(s4, sorted(args.extra_distinfo_file), TRUE)
  IN {add_recordfile(w, 0) : w \in {v \in s5 : v.ok}}

(***************************************************************************)
(* The state of a run of main.                                             *)
(***************************************************************************)
VARIABLES
  arguments,   \* the parsed command line
  fail_at,     \* the number of the member whose write fails, 0: none
  close_fails, \* ZipFile.close() cannot write the central directory
  pc,          \* where main is
  all_files,   \* the sorted (package path, real path) list
  file_idx,    \* content files added so far
  extra_idx,   \* extra descriptor files added so far
  maker,       \* the WheelMaker
  whlfile,     \* maker._whlfile and the members of the zip file
  fp,          \* the handle of the zip file: "none", "open", "closed"
  zip_file,    \* the file at the output path:
               \* "absent", "incomplete", "complete" (a readable zip)
  name_file,   \* what was written to --name_file, None: nothing
  releases,    \* how many times the handle of the zip file was released
  subject,     \* the argument of a normalizer called on its own
  history      \* the calls made so far on their own, with their outcomes

vars == <<arguments, fail_at, close_fails, pc, all_files, file_idx,
          extra_idx, maker, whlfile, fp, zip_file, name_file, releases,
          subject, history>>

NoMaker == [_name |-> None]
NoWhlFile == [ok |-> TRUE, archive |-> <<>>, _record |-> <<>>]

Init ==
  /\ arguments \in ContentArgs \cup IdentityArgs \cup DescriptorArgs
                     \cup ScenarioArgs \cup SeparatorArgs
  /\ fail_at \in 0..MaxFailAt
  /\ close_fails \in BOOLEAN
  /\ pc = "start"
  /\ all_files = <<>>
  /\ file_idx = 0
  /\ extra_idx = 0
  /\ maker = NoMaker
  /\ whlfile = NoWhlFile
  /\ fp = "none"
  /\ zip_file = "absent"
  /\ name_file = None
  /\ releases = 0
  /\ subject = None
  /\ history = <<>>

\* lines 474-513: the input lists
Prepare ==
  /\ pc = "start"
  /\ UNCHANGED <<subject, history>>
  /\ UNCHANGED releases
  /\ all_files' = sorted_items(get_files_to_package(arguments.input_file))
  /\ pc' = "construct"
  /\ UNCHANGED <<arguments, fail_at, close_fails, file_idx, extra_idx, maker,
                 whlfile, fp, zip_file, name_file>>

\* lines 515-525: WheelMaker(...)
Construct ==
  /\ pc = "construct"
  /\ UNCHANGED <<subject, history>>
  /\ UNCHANGED releases
  /\ IF ~arguments.noincompatible_normalize_version
        /\ normalize_pep440_raises(arguments.version)
     THEN /\ pc' = "failed"
          /\ UNCHANGED maker
     ELSE /\ maker' = WheelMaker(arguments.name, arguments.version,
                        arguments.build_tag, arguments.python_tag,
                        arguments.abi, arguments.platform, arguments.out,
                        arguments.strip_path_prefix,
                        ~arguments.noincompatible_normalize_name,
                        ~arguments.noincompatible_normalize_version)
          /\ pc' = "enter"
  /\ UNCHANGED <<arguments, fail_at, close_fails, all_files, file_idx,
                 extra_idx, whlfile, fp, zip_file, name_file>>

\* WheelMaker.__enter__
Enter ==
  /\ pc = "enter"
  /\ UNCHANGED <<subject, history>>
  /\ UNCHANGED releases
  /\ whlfile' = _WhlFile(maker._distinfo_dir, maker._strip_path_prefixes)
  /\ fp' = "open"
  /\ zip_file' = "incomplete"
  /\ pc' = "files"
  /\ UNCHANGED <<arguments, fail_at, close_fails, all_files, file_idx,
                 extra_idx, maker, name_file>>

\* where main goes after a call on the archive
After(w, next) == IF w.ok THEN next ELSE "raise"

\* lines 527-528: one maker.add_file of the loop
AddContentFile ==
  /\ pc = "files"
  /\ UNCHANGED <<subject, history>>
  /\ UNCHANGED releases
  /\ file_idx < Len(all_files)
  /\ \E w2 \in add_file(whlfile, fail_at, all_files[file_idx + 1][1],
                        all_files[file_idx + 1][2]) :
       /\ whlfile' = w2
       /\ pc' = After(w2, "files")
  /\ file_idx' = file_idx + 1
  /\ UNCHANGED <<arguments, fail_at, close_fails, all_files, extra_idx,
                 maker, fp, zip_file, name_file>>

\* line 529
AddWheelfile ==
  /\ pc = "files"
  /\ UNCHANGED <<subject, history>>
  /\ UNCHANGED releases
  /\ file_idx = Len(all_files)
  /\ whlfile' = add_wheelfile(maker, whlfile, fail_at)
  /\ pc' = After(whlfile', "metadata")
  /\ UNCHANGED <<arguments, fail_at, close_fails, all_files, file_idx,
                 extra_idx, maker, fp, zip_file, name_file>>

\* lines 531-559: read the description and the metadata, add METADATA
AddMetadata ==
  /\ pc = "metadata"
  /\ UNCHANGED <<subject, history>>
  /\ UNCHANGED releases
  /\ LET description == IF arguments.description_file # None
                        THEN FS[arguments.description_file].data ELSE None
         metadata == FS[arguments.metadata_file].data
     IN IF \/ (arguments.description_file # None
                 /\ ~Readable(arguments.description_file))
           \/ ~Readable(arguments.metadata_file)
        THEN whlfile' = Raised(whlfile)
        ELSE whlfile' = add_metadata(whlfile, fail_at, metadata,
                                     arguments.name, description,
                                     version_in_metadata(arguments))
  /\ pc' = After(whlfile', "entry")
  /\ UNCHANGED <<arguments, fail_at, close_fails, all_files, file_idx,
                 extra_idx, maker, fp, zip_file, name_file>>

\* lines 561-564
AddEntryPoints ==
  /\ pc = "entry"
  /\ UNCHANGED <<subject, history>>
  /\ UNCHANGED releases
  /\ IF arguments.entry_points_file # None
     THEN \E w2 \in add_file(whlfile, fail_at,
                             distinfo_path(whlfile, entry_points_txt),
                             arguments.entry_points_file) :
            whlfile' = w2
     ELSE UNCHANGED whlfile
  /\ pc' = After(whlfile', "extras")
  /\ UNCHANGED <<arguments, fail_at, close_fails, all_files, file_idx,
                 extra_idx, maker, fp, zip_file, name_file>>

\* lines 567-568: one maker.add_file of the loop
AddExtraDistinfo ==
  /\ pc = "extras"
  /\ UNCHANGED <<subject, history>>
  /\ UNCHANGED releases
  /\ extra_idx < Len(arguments.extra_distinfo_file)
  /\ LET extra == sorted(arguments.extra_distinfo_file)[extra_idx + 1]
     IN \E w2 \in add_file(whlfile, fail_at,
                           distinfo_path(whlfile, extra[1]), extra[2]) :
          whlfile' = w2
  /\ pc' = After(whlfile', "extras")
  /\ extra_idx' = extra_idx + 1
  /\ UNCHANGED <<arguments, fail_at, close_fails, all_files, file_idx,
                 maker, fp, zip_file, name_file>>

\* line 570
AddRecordfile ==
  /\ pc = "extras"
  /\ UNCHANGED <<subject, history>>
  /\ UNCHANGED releases
  /\ extra_idx = Len(arguments.extra_distinfo_file)
  /\ whlfile' = add_recordfile(whlfile, fail_at)
  /\ pc' = After(whlfile', "namefile")
  /\ UNCHANGED <<arguments, fail_at, close_fails, all_files, file_idx,
                 extra_idx, maker, fp, zip_file, name_file>>

\* line 576, inside the with block
WriteNameFile ==
  /\ pc = "namefile"
  /\ UNCHANGED <<subject, history>>
  /\ UNCHANGED releases
  /\ name_file' = wheelname(maker)
  /\ pc' = "exit"
  /\ UNCHANGED <<arguments, fail_at, close_fails, all_files, file_idx,
                 extra_idx, maker, whlfile, fp, zip_file>>

\* main closing the archive at the end of the block only, without the with
\* statement: a call that raised leaves the handle as it is
Exit_only_at_end_of_block ==
  /\ pc \in {"exit", "raise"}
  /\ UNCHANGED <<subject, history>>
  /\ IF pc = "raise"
     THEN /\ pc' = "failed"
          /\ UNCHANGED <<fp, zip_file, releases>>
     ELSE /\ fp' = "closed"
          /\ releases' = releases + 1
          /\ zip_file' = IF close_fails THEN "incomplete" ELSE "complete"
          /\ pc' = IF close_fails THEN "failed" ELSE "done"
  /\ UNCHANGED <<arguments, fail_at, close_fails, all_files, file_idx,
                 extra_idx, maker, whlfile, name_file>>

\* WheelMaker.__exit__, at the end of the block or when a call raised:
\* ZipFile.close() writes the central directory and releases the handle.
\* After a failed write the disk may or may not take the central directory.
Exit ==
  /\ pc \in {"exit", "raise"}
  /\ UNCHANGED <<subject, history>>
  /\ releases' = releases + 1
  /\ fp' = "closed"
  /\ \E written \in BOOLEAN :
       /\ written = TRUE => ~close_fails
       /\ written = FALSE =>
            (close_fails \/ (pc = "raise"
                               /\ Len(whlfile.archive) + 1 = fail_at))
       /\ zip_file' = IF written THEN "complete" ELSE "incomplete"
       /\ pc' = IF pc = "exit" /\ written THEN "done" ELSE "failed"
  /\ UNCHANGED <<arguments, fail_at, close_fails, all_files, file_idx,
                 extra_idx, maker, whlfile, name_file>>

Next ==
  \/ Prepare
  \/ Construct
  \/ Enter
  \/ AddContentFile
  \/ AddWheelfile
  \/ AddMetadata
  \/ AddEntryPoints
  \/ AddExtraDistinfo
  \/ AddRecordfile
  \/ WriteNameFile
  \/ Exit

Spec == Init /\ [][Next]_vars

(***************************************************************************)
(* A client of the class WheelMaker: it constructs one object and calls    *)
(* its methods in any order, entering a with block only when it is not     *)
(* inside one.  maker._whlfile is None exactly when fp is not "open".      *)
(* history records every call: the method, the state of the handle before  *)
(* the call and whether the call returned (ok) or raised.                  *)
(***************************************************************************)
Called(op, ok) == Append(history, [op |-> op, before |-> fp, ok |-> ok])

ClientInit ==
  /\ arguments = DefaultArgs
  /\ fail_at = 0
  /\ close_fails = FALSE
  /\ pc = "client"
  /\ all_files = <<>>
  /\ file_idx = 0
  /\ extra_idx = 0
  /\ maker = WheelMaker(arguments.name, arguments.version,
                        arguments.build_tag, arguments.python_tag,
                        arguments.abi, arguments.platform, arguments.out,
                        arguments.strip_path_prefix, TRUE, TRUE)
  /\ whlfile = NoWhlFile
  /\ fp = "none"
  /\ zip_file = "absent"
  /\ name_file = None
  /\ releases = 0
  /\ subject = None
  /\ history = <<>>

\* WheelMaker.__enter__: a new _WhlFile opens the output path in mode "w"
ClientEnter ==
  /\ pc = "client" /\ Len(history) < MaxCalls
  /\ fp # "open"
  /\ whlfile' = _WhlFile(maker._distinfo_dir, maker._strip_path_prefixes)
  /\ fp' = "open"
  /\ zip_file' = "incomplete"
  /\ history' = Called("__enter__", TRUE)
  /\ UNCHANGED <<arguments, fail_at, close_fails, pc, all_files, file_idx,
                 extra_idx, maker, name_file, releases, subject>>

\* WheelMaker.__exit__: self._whlfile.close() raises AttributeError when
\* _whlfile is None
ClientExit ==
  /\ pc = "client" /\ Len(history) < MaxCalls
  /\ IF fp = "open"
     THEN /\ fp' = "closed"
          /\ zip_file' = "complete"
          /\ releases' = releases + 1
          /\ history' = Called("__exit__", TRUE)
     ELSE /\ history' = Called("__exit__", FALSE)
          /\ UNCHANGED <<fp, zip_file, releases>>
  /\ UNCHANGED <<arguments, fail_at, close_fails, pc, all_files, file_idx,
                 extra_idx, maker, whlfile, name_file, subject>>

\* what a call on the archive leaves when it ends in w: the archive as it
\* is, and the outcome in history
ClientCalled(op, w) ==
  /\ whlfile' = [w EXCEPT !.ok = TRUE]
  /\ history' = Called(op, w.ok)

\* a method that uses self._whlfile while it is None raises AttributeError
ClientRaised(op) ==
  /\ history' = Called(op, FALSE)
  /\ UNCHANGED whlfile

\* WheelMaker.add_file
ClientAddFile ==
  /\ pc = "client" /\ Len(history) < MaxCalls
  /\ \E pair \in {<< <<"a", "/", "c">>, <<"f", "2">> >>,
                   << <<"a", "/", "n">>, <<"n">> >>} :
       IF fp = "open"
       THEN \E w \in add_file(whlfile, 0, pair[1], pair[2]) :
              ClientCalled("add_file", w)
       ELSE ClientRaised("add_file")
  /\ UNCHANGED <<arguments, fail_at, close_fails, pc, all_files, file_idx,
                 extra_idx, maker, fp, zip_file, name_file, releases,
                 subject>>

\* WheelMaker.add_wheelfile
ClientAddWheelfile ==
  /\ pc = "client" /\ Len(history) < MaxCalls
  /\ IF fp = "open"
     THEN ClientCalled("add_wheelfile", add_wheelfile(maker, whlfile, 0))
     ELSE ClientRaised("add_wheelfile")
  /\ UNCHANGED <<arguments, fail_at, close_fails, pc, all_files, file_idx,
                 extra_idx, maker, fp, zip_file, name_file, releases,
                 subject>>

\* WheelMaker.add_metadata
ClientAddMetadata ==
  /\ pc = "client" /\ Len(history) < MaxCalls
  /\ IF fp = "open"
     THEN ClientCalled("add_metadata",
            add_metadata(whlfile, 0, FS[arguments.metadata_file].data,
                         arguments.name, None, maker._version))
     ELSE ClientRaised("add_metadata")
  /\ UNCHANGED <<arguments, fail_at, close_fails, pc, all_files, file_idx,
                 extra_idx, maker, fp, zip_file, name_file, releases,
                 subject>>

\* WheelMaker.add_recordfile
ClientAddRecordfile ==
  /\ pc = "client" /\ Len(history) < MaxCalls
  /\ IF fp = "open"
     THEN ClientCalled("add_recordfile", add_recordfile(whlfile, 0))
     ELSE ClientRaised("add_recordfile")
  /\ UNCHANGED <<arguments, fail_at, close_fails, pc, all_files, file_idx,
                 extra_idx, maker, fp, zip_file, name_file, releases,
                 subject>>

ClientNext ==
  \/ ClientEnter
  \/ ClientExit
  \/ ClientAddFile
  \/ ClientAddWheelfile
  \/ ClientAddMetadata
  \/ ClientAddRecordfile

SpecClient == ClientInit /\ [][ClientNext]_vars

(***************************************************************************)
(* The normalizers called by themselves on strings of a small alphabet and *)
(* on the strings of the examples.  history records every call: the        *)
(* function, its argument, whether it returned (ok) and the value.         *)
(***************************************************************************)
VersionAlphabet == {"1", "a", ".", "-", "_", "+", "{", "}"}
NameAlphabet == {"A", "a", "b", "-", "_", "."}

VersionStrings ==
  SeqsUpTo(VersionAlphabet, MaxLen)
    \cup { <<"{", "B", "U", "I", "L", "D", "_", "T", "I", "M", "E", "S", "T", "A", "M", "P", "}">>,
           <<"1", ".", "0", "-", "b", "e", "t", "a">>,
           <<"1", ".", "0", "+", "{", "a", "}">>,
           <<"1", ".", "0", ".", "{", "B", "}">>,
           <<"1", "-", "x", "-", "0", "1">>,
           <<"1", ".", "0", "+", "{", "a", "}", "+">> }

NameStrings ==
  SeqsUpTo(NameAlphabet, MaxLen)
    \cup { <<"F", "o", "o", "_", "_", "B", "a", "r", ".", "B", "a", "z">>,
           <<"f", "o", "o", "-", "b", "a", "r", "-", "b", "a", "z">>,
           <<"M", "y", ".", "P", "k", "g">> }

\* a call of normalize_pep440: it returns a version or raises InvalidVersion
Call_normalize_pep440(version) ==
  IF normalize_pep440_raises(version)
  THEN [op |-> "normalize_pep440", arg |-> version, ok |-> FALSE,
        value |-> None]
  ELSE [op |-> "normalize_pep440", arg |-> version, ok |-> TRUE,
        value |-> normalize_pep440(version)]

Call_normalize_package_name(name) ==
  [op |-> "normalize_package_name", arg |-> name, ok |-> TRUE,
   value |-> normalize_package_name(name)]

NormalizeInit ==
  /\ \/ pc = "normalize_pep440" /\ subject \in VersionStrings
     \/ pc = "normalize_package_name" /\ subject \in NameStrings
  /\ history = <<>>
  /\ arguments = DefaultArgs
  /\ fail_at = 0
  /\ close_fails = FALSE
  /\ all_files = <<>>
  /\ file_idx = 0
  /\ extra_idx = 0
  /\ maker = NoMaker
  /\ whlfile = NoWhlFile
  /\ fp = "none"
  /\ zip_file = "absent"
  /\ name_file = None
  /\ releases = 0

\* normalize_pep440(subject)
NormalizePep440 ==
  /\ pc = "normalize_pep440"
  /\ history = <<>>
  /\ history' = <<Call_normalize_pep440(subject)>>
  /\ UNCHANGED <<arguments, fail_at, close_fails, pc, all_files, file_idx,
                 extra_idx, maker, whlfile, fp, zip_file, name_file,
                 releases, subject>>

\* normalize_pep440 of the version the first call returned
NormalizePep440Again ==
  /\ pc = "normalize_pep440"
  /\ Len(history) = 1
  /\ history[1].ok
  /\ history' = Append(history, Call_normalize_pep440(history[1].value))
  /\ UNCHANGED <<arguments, fail_at, close_fails, pc, all_files, file_idx,
                 extra_idx, maker, whlfile, fp, zip_file, name_file,
                 releases, subject>>

\* normalize_package_name(subject)
NormalizePackageName ==
  /\ pc = "normalize_package_name"
  /\ history = <<>>
  /\ history' = <<Call_normalize_package_name(subject)>>
  /\ UNCHANGED <<arguments, fail_at, close_fails, pc, all_files, file_idx,
                 extra_idx, maker, whlfile, fp, zip_file, name_file,
                 releases, subject>>

NormalizeNext ==
  \/ NormalizePep440
  \/ NormalizePep440Again
  \/ NormalizePackageName

SpecNormalize == NormalizeInit /\ [][NormalizeNext]_vars

(***************************************************************************)
(* Properties.                                                             *)
(***************************************************************************)
\* the lines of a text, without their newlines
RECURSIVE LinesOf(_)
LinesOf(text) ==
  IF text = <<>> THEN <<>>
  ELSE LET line == RestOfLine(text)
           rest == DropFirst(text, Len(line))
       IN <<line>> \o (IF rest = <<>> THEN <<>> ELSE LinesOf(Tail(rest)))

Last(seq) == seq[Len(seq)]

\* <descriptor-dir>/RECORD, from the directory name the WheelMaker derived
RecordPath == maker._distinfo_dir \o RECORD

\* C1: the canonical-name file is written only after the archive has been
\* closed: whenever the name file has been written, the archive handle is
\* no longer open.
C1_NameFileOnlyAfterClose == name_file # None => fp = "closed"

\* C2: when a step between opening the archive and adding RECORD has
\* failed and the run has ended, no readable partial archive is left at the
\* output path and the canonical-name file has not been written.
C2_NoPartialArchiveAfterFailure ==
  (pc = "failed" /\ ~whlfile.ok)
    => (zip_file # "complete" /\ name_file = None)

\* C3: in a completed build <descriptor-dir>/RECORD is the last member of
\* the archive, and the last line of its contents is the line of RECORD
\* itself, with an empty digest and an empty size.
C3_RecordLast ==
  pc = "done" =>
    /\ Last(whlfile.archive).zinfo.filename = RecordPath
    /\ Last(LinesOf(Last(whlfile.archive).data))
         = RecordPath \o <<",", "", ",", "">>

\* a completed build with a content file, an entry-point listing and extra
\* descriptor files
C3_Witness ==
  /\ pc = "done"
  /\ arguments.entry_points_file # None
  /\ extra_idx = 2
  /\ Len(whlfile.archive) = 7

\* RECORD has been added to the archive
RecordAdded == whlfile.ok /\ pc \in {"namefile", "exit", "done"}

\* C4: the contents of RECORD are one line for every member written before
\* RECORD, in the order the members were written, each with the path of
\* the member in the archive and its digest and size, and then the line of
\* RECORD itself.
C4_RecordInInsertionOrder ==
  RecordAdded =>
    LET members == whlfile.archive
        n       == Len(members)
        lines   == LinesOf(members[n].data)
    IN /\ Len(lines) = n
       /\ \A i \in 1..(n - 1) :
            lines[i] = members[i].zinfo.filename
                         \o <<",", whlfile._record[i][2],
                              ",", whlfile._record[i][3]>>
       /\ lines[n] = members[n].zinfo.filename \o <<",", "", ",", "">>

\* RECORD was written after two content files whose sorted order is not
\* the order they were given in
C4_Witness ==
  /\ RecordAdded
  /\ Len(all_files) = 2
  /\ arguments.input_file[1] = all_files[2]
  /\ Len(whlfile.archive) = 5

\* SHA-256 of a whole byte sequence
Sha256(bytes) == Flatten(bytes)

\* C5: for every member but RECORD's own line, the recorded digest is the
\* hash of the bytes written to the archive for the member and the
\* recorded size is the number of those bytes, whatever the length of the
\* file.
C5_DigestAndSizeOfWrittenBytes ==
  /\ Len(whlfile._record) = Len(whlfile.archive)
  /\ \A i \in 1..Len(whlfile._record) :
       /\ whlfile._record[i][2]
            = "sha256=" \o Sha256(whlfile.archive[i].data)
       /\ whlfile._record[i][3]
            = ToString(ByteLen(whlfile.archive[i].data))

\* add_file has streamed an empty file and a file of one full chunk and a
\* short one, and add_string has added WHEEL
C5_Witness ==
  /\ pc = "metadata"
  /\ \E i, j \in 1..file_idx :
       /\ whlfile.archive[i].data = <<>>
       /\ whlfile.archive[j].data = <<"a", "b", "c">>
  /\ Len(whlfile.archive) = file_idx + 1

\* the orders in which a list of inputs may be given
Orders(list) ==
  {f \in [1..Len(list) -> 1..Len(list)] :
     \A i, j \in 1..Len(list) : f[i] = f[j] => i = j}

DistinctPackagePaths(input_files) ==
  \A i, j \in 1..Len(input_files) :
    input_files[i][1] = input_files[j][1] => i = j

\* C6: a build from the same input pairs, in whatever order they are given
\* and in whatever order the children of a directory are listed, has the
\* same sequence of archive members, RECORD among them, as this build.
C6_SameArchiveWhateverTheOrder ==
  (pc = "done" /\ DistinctPackagePaths(arguments.input_file)) =>
    \A f \in Orders(arguments.input_file) :
      \A w \in Builds([arguments EXCEPT
                        !.input_file = [i \in 1..Len(f) |->
                                          arguments.input_file[f[i]]]]) :
        w.archive = whlfile.archive

\* the content file that was added last is a regular file
ContentFileAdded ==
  /\ pc = "files"
  /\ file_idx > 0
  /\ whlfile.ok
  /\ Readable(all_files[file_idx][2])

\* the path lies in the descriptor directory
UnderDescriptorDir(path) == startswith(path, maker._distinfo_dir)

\* the path is what is left of whole after the first prefix of the list
\* that whole starts with has been taken off once, or whole itself when it
\* starts with none
FirstMatchRemoved(path, whole, prefixes) ==
  \/ /\ \A j \in 1..Len(prefixes) : ~startswith(whole, prefixes[j])
     /\ path = whole
  \/ \E i \in 1..Len(prefixes) :
       /\ startswith(whole, prefixes[i])
       /\ \A j \in 1..(i - 1) : ~startswith(whole, prefixes[j])
       /\ prefixes[i] \o path = whole

\* the name of the member but for the leading separators the archive drops
NameOfMember(member, path) == member.zinfo.filename = lstrip(path, {"/"})

\* C7: the member of a path outside the descriptor directory is named by
\* what is left after the first prefix, in list order, that the path starts
\* with has been removed once; with the prefixes a/b, a the path a/b/c
\* becomes c.
C7_FirstMatchingPrefixRemoved ==
  (ContentFileAdded /\ ~UnderDescriptorDir(all_files[file_idx][1])) =>
    LET whole == all_files[file_idx][1]
    IN /\ \E k \in 0..Len(whole) :
            /\ FirstMatchRemoved(DropFirst(whole, k), whole,
                                 arguments.strip_path_prefix)
            /\ NameOfMember(Last(whlfile.archive), DropFirst(whole, k))
       /\ (/\ whole = <<"a", "/", "b", "/", "c">>
           /\ arguments.strip_path_prefix
                = << <<"a", "/", "b">>, <<"a">> >>)
            => Last(whlfile.archive).zinfo.filename = <<"c">>

\* C8: a member keeps its whole path exactly when the path lies in the
\* descriptor directory; from any other path that starts with a strip
\* prefix, a prefix is removed.
C8_ExemptExactlyUnderDescriptorDir ==
  ContentFileAdded =>
    LET whole == all_files[file_idx][1]
        hit   == \E j \in 1..Len(arguments.strip_path_prefix) :
                   /\ startswith(whole, arguments.strip_path_prefix[j])
                   /\ arguments.strip_path_prefix[j] # <<>>
    IN IF UnderDescriptorDir(whole)
       THEN NameOfMember(Last(whlfile.archive), whole)
       ELSE hit => Len(Last(whlfile.archive).zinfo.filename) < Len(whole)

\* C9: every input pair is written as a member of its own, also when two
\* pairs have the same archive path: the content members are as many as
\* the input pairs.
C9_DuplicatePathsBothWritten ==
  (/\ pc = "files"
   /\ file_idx = Len(all_files)
   /\ whlfile.ok
   /\ \A i \in 1..Len(all_files) : Readable(all_files[i][2]))
    => Len(whlfile.archive) = Len(arguments.input_file)

\* the real path of the last input pair with this package path
LastRealPath(package_path) ==
  LET input == arguments.input_file
      last  == CHOOSE i \in 1..Len(input) :
                 /\ input[i][1] = package_path
                 /\ \A j \in (i + 1)..Len(input) : input[j][1] # package_path
  IN input[last][2]

\* C9, amended: of the input pairs with the same archive path only the one
\* given last is kept: main calls add_file once for every distinct archive
\* path, with the real path of the last pair that has it, so the member
\* written for the path holds the bytes of that file.
C9_LastDuplicateWins ==
  /\ pc # "start" =>
       /\ {all_files[j][1] : j \in 1..Len(all_files)}
            = {arguments.input_file[i][1] :
                 i \in 1..Len(arguments.input_file)}
       /\ \A j, k \in 1..Len(all_files) :
            all_files[j][1] = all_files[k][1] => j = k
       /\ \A j \in 1..Len(all_files) :
            all_files[j][2] = LastRealPath(all_files[j][1])
  /\ ContentFileAdded =>
       Last(whlfile.archive).data
         = FS[LastRealPath(all_files[file_idx][1])].data

\* two pairs with the same archive path and different files were given and
\* the content files have been added
C9_Witness ==
  /\ ContentFileAdded
  /\ file_idx = Len(all_files)
  /\ Len(arguments.input_file) = 2
  /\ arguments.input_file[1][1] = arguments.input_file[2][1]
  /\ FS[arguments.input_file[1][2]].data # FS[arguments.input_file[2][2]].data
  /\ Len(whlfile.archive) = 1

\* the values of the lines of a text that start with key
FieldValues(text, key) ==
  {Tail(LinesOf(text)[i]) :
     i \in {j \in 1..Len(LinesOf(text)) :
              LinesOf(text)[j] # <<>> /\ Head(LinesOf(text)[j]) = key}}

\* the METADATA member of the archive
MetadataMember ==
  CHOOSE m \in {whlfile.archive[i] : i \in 1..Len(whlfile.archive)} :
    \E dir \in {SubSeq(m.zinfo.filename, 1, k) :
                  k \in 0..Len(m.zinfo.filename)} :
      m.zinfo.filename = dir \o <<"/">> \o METADATA

\* the descriptor directory the METADATA member lies in
MetadataDir ==
  SubSeq(MetadataMember.zinfo.filename, 1,
         Len(MetadataMember.zinfo.filename) - Len(METADATA) - 1)

NormalizingBuildDone ==
  /\ pc = "done"
  /\ ~arguments.noincompatible_normalize_name
  /\ ~arguments.noincompatible_normalize_version

DistInfo == <<".", "d", "i", "s", "t", "-", "i", "n", "f", "o">>

\* C10: in a build that normalizes, the name and the version in the name
\* of the descriptor directory, in the canonical file name and on the
\* Name: and Version: lines of METADATA are the same.
C10_SameNameAndVersionEverywhere ==
  NormalizingBuildDone =>
    \A n \in FieldValues(MetadataMember.data, "Name: ") :
      \A v \in FieldValues(MetadataMember.data, "Version: ") :
        /\ MetadataDir = n \o <<"-">> \o v \o DistInfo
        /\ startswith(name_file, n \o <<"-">> \o v \o <<"-">>)

\* C10, amended: in a build that normalizes, the version in the name of
\* the descriptor directory, in the canonical file name and on the
\* Version: line of METADATA is the same normalized version, and the name
\* in the descriptor directory and in the file name is the same escaped
\* name (the normalized name with "_" for "-"), while every Name: line of
\* METADATA has the name as it was given.
C10_SameVersionEscapedOrGivenName ==
  NormalizingBuildDone =>
    LET escaped == escape_filename_distribution_name(arguments.name)
    IN /\ FieldValues(MetadataMember.data, "Name: ") \subseteq {arguments.name}
       /\ \A v \in FieldValues(MetadataMember.data, "Version: ") :
            /\ v = normalize_pep440(arguments.version)
            /\ MetadataDir = escaped \o <<"-">> \o v \o DistInfo
            /\ startswith(name_file, escaped \o <<"-">> \o v \o <<"-">>)
       /\ FieldValues(MetadataMember.data, "Version: ") # {}

\* a normalizing build of a name and a version that are not normalized
C10_Witness ==
  /\ NormalizingBuildDone
  /\ arguments.name = <<"p", "_", "_", "b">>
  /\ arguments.version = <<"1", "-", "b">>
  /\ FieldValues(MetadataMember.data, "Name: ") # {}

\* a run that ends in success ends in one of the states of Builds
DoneIsABuild == pc = "done" => whlfile \in Builds(arguments)

\* a build of the end-to-end scenario has completed
ScenarioDone == pc = "done" /\ arguments \in ScenarioArgs

\* the member of the archive with this name has these two units in a row
MemberHas(name, first, second) ==
  \E i \in 1..Len(whlfile.archive) :
    /\ whlfile.archive[i].zinfo.filename = name
    /\ \E j \in 1..(Len(whlfile.archive[i].data) - 1) :
         /\ whlfile.archive[i].data[j] = first
         /\ whlfile.archive[i].data[j + 1] = second

ScenarioDistinfo == <<"m", "y", "_", "p", "k", "g", "-", "1", ".", "0", "b", "0", ".", "d", "i", "s", "t", "-", "i", "n", "f", "o", "/">>

\* C11: the build of name My.Pkg, version 1.0-beta, python tag py3, abi
\* none, platform any and no build tag writes the canonical file name
\* my-pkg-1.0b0-py3-none-any.whl, has the descriptor directory
\* my_pkg-1.0b0.dist-info/ and a WHEEL member with Root-Is-Purelib: true.
C11_ScenarioNames ==
  ScenarioDone =>
    /\ name_file = <<"m", "y", "-", "p", "k", "g", "-", "1", ".", "0", "b", "0", "-", "p", "y", "3", "-", "n", "o", "n", "e", "-", "a", "n", "y", ".", "w", "h", "l">>
    /\ maker._distinfo_dir = ScenarioDistinfo
    /\ MemberHas(ScenarioDistinfo \o WHEEL, "Root-Is-Purelib: ", "true")

\* C11, amended: the canonical file name of that build is
\* my_pkg-1.0b0-py3-none-any.whl, with the "-" of the normalized name
\* replaced by "_" as in the descriptor directory; the descriptor directory
\* is my_pkg-1.0b0.dist-info/ and WHEEL has Root-Is-Purelib: true.
C11_ScenarioNamesEscaped ==
  ScenarioDone =>
    /\ name_file = <<"m", "y", "_", "p", "k", "g", "-", "1", ".", "0", "b", "0", "-", "p", "y", "3", "-", "n", "o", "n", "e", "-", "a", "n", "y", ".", "w", "h", "l">>
    /\ maker._distinfo_dir = ScenarioDistinfo
    /\ MemberHas(ScenarioDistinfo \o WHEEL, "Root-Is-Purelib: ", "true")

\* the scenario has been built: two content files, WHEEL, METADATA, RECORD
C11_Witness ==
  /\ ScenarioDone
  /\ Len(whlfile.archive) = 5
  /\ name_file # None

AddOps == {"add_file", "add_wheelfile", "add_metadata", "add_recordfile"}

\* C12: the archive of a WheelMaker goes from created through open to
\* closed and never back: no add_file, add_wheelfile, add_metadata or
\* add_recordfile call returns unless the archive is open, and the archive
\* is opened only from the created state, never again once it was closed.
C12_ClosedIsTerminal ==
  \A i \in 1..Len(history) :
    /\ (history[i].op \in AddOps /\ history[i].ok)
         => history[i].before = "open"
    /\ (history[i].op = "__enter__" /\ history[i].ok)
         => history[i].before = "none"

\* the add methods of a WheelMaker return only while its archive is open
AddsOnlyWhileOpen ==
  \A i \in 1..Len(history) :
    (history[i].op \in AddOps /\ history[i].ok)
      => history[i].before = "open"

\* the run of main has ended
Ended == pc \in {"done", "failed"}

\* C13: on every path of a build the handle of the archive is released
\* exactly once: it is never released twice, it is not released while
\* main is still adding members, and a run that has ended, whether the
\* build completed or a call failed partway, has released once the handle
\* it acquired.
C13_ReleasedExactlyOnce ==
  /\ releases <= 1
  /\ fp = "open" => (releases = 0 /\ ~Ended)
  /\ Ended => releases = (IF fp = "none" THEN 0 ELSE 1)
  /\ (Ended /\ pc # "failed") => fp = "closed"
  /\ (Ended /\ whlfile # NoWhlFile) => fp = "closed"

\* a run in which an add call failed after a member was written has ended
C13_Witness ==
  /\ pc = "failed"
  /\ ~whlfile.ok
  /\ Len(whlfile.archive) >= 1
  /\ releases = 1

\* the calls of a function in history
CallsOf(op) == {i \in 1..Len(history) : history[i].op = op}

\* the string is a valid version / what canonicalizing it gives
Valid(version) == Version(version).ok
Canon(version) == [ok |-> Version(version).ok, value |-> Version(version).text]

\* the maximal runs of lower-case letters and digits of a string
RECURSIVE AlnumRuns(_)
AlnumRuns(s) ==
  IF s = <<>> THEN <<>>
  ELSE LET run == SpanOf(s, Letters \cup Digits)
       IN IF run = <<>> THEN AlnumRuns(Tail(s))
          ELSE <<run>> \o AlnumRuns(DropFirst(s, Len(run)))

\* the sanitized form of a version: lower-cased, every run of other
\* characters a single ".", none at the ends
Sanitized(version) == Join(AlnumRuns(lower(version)), <<".">>)

\* s[i..j] is a placeholder: braces around one or more word characters
IsPlaceholder(s, i, j) ==
  /\ s[i] = "{" /\ s[j] = "}" /\ j > i + 1
  /\ \A k \in (i + 1)..(j - 1) : s[k] \in WordChars

\* the version with 0 for every placeholder
Substituted(s) ==
  Join([k \in 1..Len(s) |->
          IF \E j \in k..Len(s) : IsPlaceholder(s, k, j) THEN <<"0">>
          ELSE IF \E i \in 1..k, j \in k..Len(s) : IsPlaceholder(s, i, j)
               THEN <<>>
               ELSE <<s[k]>>],
       <<>>)

EndsWith(s, suffix) ==
  Len(suffix) <= Len(s) /\ DropFirst(s, Len(s) - Len(suffix)) = suffix

\* the version has a local segment that ends with the sanitized string as
\* a local segment is written
CarriesLocal(version, sanitized) ==
  \E k \in 1..Len(version) :
    /\ version[k] = "+"
    /\ EndsWith(DropFirst(version, k), Local(sanitized))

\* what a returned version is like: valid, in canonical form, and with the
\* sanitized argument as local segment when the argument was not valid
GoodResult(call) ==
  /\ Valid(call.value)
  /\ Version(call.value).text = call.value
  /\ ~Valid(call.arg) => CarriesLocal(call.value, Sanitized(call.arg))

\* C14: normalize_pep440 never fails: for every string, the empty string
\* and strings without letters and digits among them, it returns a valid
\* version, and when the string was not valid by itself the version has
\* the sanitized string as a local segment.
C14_NeverFails ==
  \A i \in CallsOf("normalize_pep440") :
    history[i].ok /\ GoodResult(history[i])

\* every version normalize_pep440 returns is valid, canonical and carries
\* the sanitized argument
ReturnedVersionsAreGood ==
  \A i \in CallsOf("normalize_pep440") :
    history[i].ok => GoodResult(history[i])

\* normalize_pep440 raises exactly on the strings without a letter or digit
RaisesOnlyWithoutAlnum ==
  \A i \in CallsOf("normalize_pep440") :
    history[i].ok <=> Sanitized(history[i].arg) # <<>>

\* C15: normalize_pep440 is idempotent: called on the version it returned,
\* whichever attempt produced it, it returns that version again.
C15_Idempotent ==
  Len(history) = 2 =>
    /\ history[2].arg = history[1].value
    /\ history[2].ok
    /\ history[2].value = history[1].value

\* the second call has been made on a version of the fallback path
C15_Witness ==
  /\ Len(history) = 2
  /\ subject = <<"{", "B", "U", "I", "L", "D", "_", "T", "I", "M", "E", "S", "T", "A", "M", "P", "}">>
  /\ ~Valid(subject)
  /\ history[2].value = <<"0", "+", "b", "u", "i", "l", "d", ".", "t", "i", "m", "e", "s", "t", "a", "m", "p">>

\* C16: for a string that is not a valid version, normalize_pep440 gives
\* what canonicalizing substituted + delimiter + sanitized gives when that
\* is valid, and what canonicalizing 0+sanitized gives otherwise, where
\* substituted has 0 for every placeholder and the delimiter is "." when
\* substituted contains "+" and "+" when not; {BUILD_TIMESTAMP} gives
\* 0+build.timestamp.
C16_FallbackChain ==
  \A i \in CallsOf("normalize_pep440") :
    ~Valid(history[i].arg) =>
      LET sanitized   == Sanitized(history[i].arg)
          substituted == Substituted(history[i].arg)
          delimiter   == IF \E k \in 1..Len(substituted) :
                                substituted[k] = "+"
                         THEN <<".">> ELSE <<"+">>
          second      == substituted \o delimiter \o sanitized
          third       == <<"0", "+">> \o sanitized
      IN /\ [ok |-> history[i].ok, value |-> history[i].value]
              = IF Valid(second) THEN Canon(second) ELSE Canon(third)
         /\ history[i].arg = <<"{", "B", "U", "I", "L", "D", "_", "T", "I", "M", "E", "S", "T", "A", "M", "P", "}">>
              => history[i].value = <<"0", "+", "b", "u", "i", "l", "d", ".", "t", "i", "m", "e", "s", "t", "a", "m", "p">>

\* normalize_pep440 has been called on a version with a placeholder after
\* a "+", where the delimiter is "."
C16_Witness ==
  /\ Len(history) = 1
  /\ subject = <<"1", ".", "0", "+", "{", "a", "}">>
  /\ history[1].value = <<"1", ".", "0", "+", "0", ".", "1", ".", "0", ".", "a">>

SwapCase(c) ==
  IF \E i \in 1..Len(UpperCase) : UpperCase[i] = c
  THEN LowerCase[CHOOSE i \in 1..Len(UpperCase) : UpperCase[i] = c]
  ELSE IF \E i \in 1..Len(LowerCase) : LowerCase[i] = c
       THEN UpperCase[CHOOSE i \in 1..Len(LowerCase) : LowerCase[i] = c]
       ELSE c

IsSep(c) == c \in {"-", "_", "."}
NotSep(c) == ~IsSep(c)

\* the names one change away from a name: a letter in the other case, a
\* separator replaced by another, a run of separators longer or shorter by
\* one separator
Variants(name) ==
  {[name EXCEPT ![i] = SwapCase(name[i])] : i \in 1..Len(name)}
    \cup UNION {{[name EXCEPT ![i] = c],
                 SubSeq(name, 1, i) \o <<c>> \o DropFirst(name, i)} :
                  i \in {k \in 1..Len(name) : IsSep(name[k])},
                  c \in {"-", "_", "."}}
    \cup {SubSeq(name, 1, i - 1) \o DropFirst(name, i) :
            i \in {k \in 1..(Len(name) - 1) :
                      IsSep(name[k]) /\ IsSep(name[k + 1])}}

\* C17: normalize_package_name gives the name in lower case with every
\* maximal run of "-", "_" and "." as a single "-", so names that differ
\* only in case and in their runs of separators have the same result;
\* Foo__Bar.Baz and foo-bar-baz both give foo-bar-baz.
C17_NameNormalization ==
  \A i \in CallsOf("normalize_package_name") :
    LET name   == history[i].arg
        result == history[i].value
    IN /\ \A k \in 1..Len(result) :
            /\ result[k] \notin {"_", "."}
            /\ result[k] = LowerChar(result[k])
            /\ (k > 1 /\ result[k] = "-") => result[k - 1] # "-"
       /\ SelectSeq(result, NotSep) = lower(SelectSeq(name, NotSep))
       /\ Cardinality({k \in 1..Len(result) : result[k] = "-"})
            = Cardinality({k \in 1..Len(name) :
                             /\ IsSep(name[k])
                             /\ (k = 1 \/ ~IsSep(name[k - 1]))})
       /\ \A other \in Variants(name) :
            normalize_package_name(other) = result
       /\ name \in {<<"F", "o", "o", "_", "_", "B", "a", "r", ".", "B", "a", "z">>,
                     <<"f", "o", "o", "-", "b", "a", "r", "-", "b", "a", "z">>}
            => result = <<"f", "o", "o", "-", "b", "a", "r", "-", "b", "a", "z">>

\* normalize_package_name has been called on Foo__Bar.Baz
C17_Witness ==
  /\ Len(history) = 1
  /\ subject = <<"F", "o", "o", "_", "_", "B", "a", "r", ".", "B", "a", "z">>
  /\ history[1].value = <<"f", "o", "o", "-", "b", "a", "r", "-", "b", "a", "z">>

\* the positions of a text where a line starts with Name:
NameStarts(text) ==
  {i \in 1..Len(text) : text[i] = "Name: " /\ (i = 1 \/ text[i - 1] = "\n")}

\* the last position of the line that position i of a text lies in
LineEnd(text, i) ==
  CHOOSE e \in i..Len(text) :
    /\ e = Len(text) \/ text[e + 1] = "\n"
    /\ \A k \in i..e : text[k] # "\n"

\* the text with the lines that start at the given positions replaced by
\* a Name: line of the name
RECURSIVE RewriteLines(_, _, _)
RewriteLines(text, starts, name) ==
  IF starts = {} THEN text
  ELSE LET i == CHOOSE s \in starts : \A o \in starts : o <= s
       IN RewriteLines(SubSeq(text, 1, i - 1) \o <<"Name: ">> \o name
                         \o DropFirst(text, LineEnd(text, i)),
                       starts \ {i}, name)

\* what add_metadata appends: the Version: line, a blank line, the
\* description or UNKNOWN, a newline
MetadataEnd ==
  <<"Version: ">> \o version_in_metadata(arguments) \o <<"\n", "\n">>
    \o (IF arguments.description_file = None THEN <<"UNKNOWN">>
        ELSE FS[arguments.description_file].data)
    \o <<"\n">>

\* main has just added METADATA
MetadataAdded == pc = "entry" /\ whlfile.ok

\* the descriptor text main read
RawMetadata == FS[arguments.metadata_file].data

\* C18: METADATA is the descriptor text with only its first line that
\* begins with Name: rewritten to the package name and every later such
\* line left as supplied, followed by the Version: line, a blank line, the
\* description or UNKNOWN, and a newline.
C18_OnlyFirstNameLineRewritten ==
  MetadataAdded =>
    LET starts == NameStarts(RawMetadata)
        first  == {i \in starts : \A o \in starts : i <= o}
    IN Last(whlfile.archive).data
         = RewriteLines(RawMetadata, first, arguments.name) \o MetadataEnd

\* METADATA is the descriptor text with every line that begins with Name:
\* rewritten, followed by the Version: line, a blank line, the description
\* or UNKNOWN, and a newline
EveryNameLineRewritten ==
  MetadataAdded =>
    /\ Last(whlfile.archive).zinfo.filename
         = maker._distinfo_dir \o METADATA
    /\ Last(whlfile.archive).data
         = RewriteLines(RawMetadata, NameStarts(RawMetadata), arguments.name)
             \o MetadataEnd

\* the regular files at or anywhere below a path of the file system
Leaves(real) ==
  {p \in DOMAIN FS :
     /\ FS[p].kind = "file"
     /\ p = real \/ startswith(p, real \o <<"/">>)}

\* the archive paths of the leaf files of an input pair: the package path
\* joined with the path of the file below the real path
LeafPaths(pair) == {pair[1] \o DropFirst(p, Len(pair[2])) : p \in Leaves(pair[2])}

\* the strings of a set in ascending order
RECURSIVE Ascending(_)
Ascending(S) ==
  IF S = {} THEN <<>>
  ELSE LET least == CHOOSE x \in S : \A y \in S \ {x} : StrLess(x, y)
       IN <<least>> \o Ascending(S \ {least})

\* the archive paths of the members of a completed build in the order the
\* claim C19 gives: content files ascending, WHEEL, METADATA,
\* entry_points.txt, the extra descriptor files ascending, RECORD
MembersInOrder ==
  LET pairs   == {arguments.input_file[i] :
                    i \in 1..Len(arguments.input_file)}
      extras  == {arguments.extra_distinfo_file[i][1] :
                    i \in 1..Len(arguments.extra_distinfo_file)}
      InDistinfo(names) ==
        [i \in 1..Len(names) |-> maker._distinfo_dir \o names[i]]
  IN Ascending(UNION {LeafPaths(pair) : pair \in pairs})
       \o InDistinfo(<<WHEEL, METADATA>>)
       \o (IF arguments.entry_points_file # None
           THEN InDistinfo(<<entry_points_txt>>) ELSE <<>>)
       \o InDistinfo(Ascending(extras))
       \o InDistinfo(<<RECORD>>)

\* the names of the members of the archive are those of a list of archive
\* paths, in its order
ArchiveIs(paths) ==
  /\ Len(whlfile.archive) = Len(paths)
  /\ \A i \in 1..Len(paths) :
       NameOfMember(whlfile.archive[i], arcname_from(whlfile, paths[i]))

\* C19: in every completed build the members are added in this order: all
\* content files in ascending order of archive path, then WHEEL, then
\* METADATA, then entry_points.txt when one was given, then the extra
\* descriptor files in ascending order of their names, then RECORD, and no
\* content file after a descriptor member.
C19_MembersInOrder == pc = "done" => ArchiveIs(MembersInOrder)

\* no input of the command line is a directory
NoDirectoryInput ==
  \A i \in 1..Len(arguments.input_file) :
    ~os_path_isdir(arguments.input_file[i][2])

\* a completed build from regular files has its members in that order
MembersInOrderFromRegularFiles ==
  (pc = "done" /\ NoDirectoryInput) => ArchiveIs(MembersInOrder)

\* a completed build has the descriptor members in that order after all
\* content files, and the same set of content files
DescriptorMembersInOrder ==
  pc = "done" =>
    /\ Len(whlfile.archive) = Len(MembersInOrder)
    /\ \E f \in [1..Len(whlfile.archive) -> 1..Len(whlfile.archive)] :
         /\ \A i, j \in DOMAIN f : f[i] = f[j] => i = j
         /\ \A i \in DOMAIN f :
              /\ NameOfMember(whlfile.archive[i],
                              arcname_from(whlfile, MembersInOrder[f[i]]))
              /\ (i > Len(whlfile.archive) - 3 - Len(arguments.extra_distinfo_file)
                        - (IF arguments.entry_points_file # None THEN 1 ELSE 0))
                   => f[i] = i

\* how many leaf files the first n pairs of all_files have
RECURSIVE LeafCount(_)
LeafCount(n) ==
  IF n = 0 THEN 0
  ELSE LeafCount(n - 1) + Cardinality(Leaves(all_files[n][2]))

\* C20: add_file on a directory adds one archive member and one record
\* entry for every leaf file anywhere in the tree, at the archive path
\* joined with the path of the file below the directory, and none for the
\* directory itself or a nested directory; an empty directory adds nothing.
C20_DirectoryAddsItsLeaves ==
  (pc = "files" /\ whlfile.ok) =>
    /\ Len(whlfile.archive) = LeafCount(file_idx)
    /\ Len(whlfile._record) = LeafCount(file_idx)
    /\ \A n \in 1..file_idx :
         \A p \in Leaves(all_files[n][2]) :
           LET path == arcname_from(whlfile,
                         all_files[n][1] \o DropFirst(p, Len(all_files[n][2])))
           IN \E k \in (LeafCount(n - 1) + 1)..LeafCount(n) :
                /\ NameOfMember(whlfile.archive[k], path)
                /\ whlfile.archive[k].data = FS[p].data
                /\ whlfile._record[k][1] = path

\* main has added a directory with a nested directory and then an empty
\* directory
C20_Witness ==
  /\ pc = "files"
  /\ whlfile.ok
  /\ file_idx = 2
  /\ all_files[1][2] = <<"d">>
  /\ all_files[2][2] = <<"o">>
  /\ Len(whlfile.archive) = 3
  /\ \E k \in 1..3 :
       whlfile.archive[k].zinfo.filename
         = <<"a", "/", "d", "/", "s", "/", "b">>

\* the path on a line of RECORD: what stands before the first comma
PathOfLine(line) ==
  SubSeq(line, 1, (CHOOSE k \in 1..Len(line) :
                     line[k] = "," /\ \A j \in 1..(k - 1) : line[j] # ",") - 1)

\* C21: in a completed archive the path on the RECORD line of every member
\* is the name the archive stores for the member, also when removing a
\* prefix leaves a path that begins with one or more "/": both have the
\* leading separators removed.
C21_RecordPathIsMemberName ==
  pc = "done" =>
    LET lines == LinesOf(Last(whlfile.archive).data)
    IN /\ Len(lines) = Len(whlfile.archive)
       /\ \A i \in 1..Len(lines) :
            /\ PathOfLine(lines[i]) = whlfile.archive[i].zinfo.filename
            /\ PathOfLine(lines[i]) = <<>> \/ Head(PathOfLine(lines[i])) # "/"

\* a completed build where removing the prefix a left //c and /c
C21_Witness ==
  /\ pc = "done"
  /\ arguments \in SeparatorArgs
  /\ whlfile._record[1][1] = <<"/", "/", "c">>
  /\ whlfile._record[2][1] = <<"/", "c">>
  /\ whlfile.archive[1].zinfo.filename = <<"c">>
  /\ whlfile.archive[2].zinfo.filename = <<"c">>

=============================================================================
